---- MODULE Spec2Model ----
(***************************************************************************)
(* Pokemon memory game: the board/session state machine of js/app.js and   *)
(* the batch fetcher of js/pokemon.js.                                     *)
(*                                                                         *)
(* Arrays are sequences; the source's 0-based index i is position i + 1    *)
(* (operator At).  A Pokemon is the record [id |-> n]: the other fields    *)
(* of processPokemonData's result are display data no handler reads.       *)
(* The program is single-threaded: one action is one run-to-completion     *)
(* task of the event loop (an event handler, a timer callback, or the      *)
(* resumption of a suspended async call).                                  *)
(***************************************************************************)
EXTENDS Integers, Sequences, FiniteSets, TLC

\* ---------------------------------------------------------------- constants
CARD_COUNT == 12
TOTAL_PAIRS == 6
\* the literal argument of fetchMultipleRandomPokemon in fetchAndAssignPokemon
FetchCount == 6

\* ------------------------------------------------------------------- bounds
\* number of deals (initApp or resetGame calls) a behaviour may start
MaxDeals == 3
\* the same, for the behaviours checked under fairness
MaxFairDeals == 2
\* unbound cards the user turns over on one grid
MaxUnboundFlips == 2
\* the batch fetcher on its own: calls per batch, and catalog ids drawn
MaxCount == 3
MaxFetchId == 2
\* pair building and shuffle on their own: Pokemon in the list
MaxShuffleCount == 3
\* longest array whose draws are enumerated in full next to a given shuffle
MaxExhaustiveLen == 6

\* ------------------------------------------------------------ the variables
VARIABLES
  structuredCloneDefined, \* whether the browser defines structuredClone
  cards,                  \* the grid's card elements, in index order
  firstSelectedCard,
  secondSelectedCard,
  isProcessingPair,
  matchedPairs,
  listenerAttached,       \* cardGrid has the click listener
  gridHidden,             \* cardGrid carries class 'hidden'
  loadingShown,           \* the spinner is shown
  fetches,                \* fetchAndAssignPokemon calls suspended at an await
  flipBackTimers,         \* pending setTimeout callbacks of handleNonMatch
  completeTimers,         \* pending setTimeout(showGameComplete, 500)
  completionMessages,     \* completion messages (with Play Again) on the page
  errorMessages,          \* error messages (with Try Again) on the page
  deal,                   \* history: number of deals started so far
  domLoaded,              \* DOMContentLoaded has been delivered
  promises,               \* batch fetcher: the promise of each request
  batch,                  \* batch fetcher: the state of the call and its result
  answered,               \* batch fetcher, history: each request's response
  shuffle                 \* pair builder and shuffle: the list, the draws, the result

vars == <<structuredCloneDefined, cards, firstSelectedCard, secondSelectedCard,
          isProcessingPair, matchedPairs, listenerAttached, gridHidden,
          loadingShown, fetches, flipBackTimers, completeTimers,
          completionMessages, errorMessages, deal, domLoaded, promises, batch,
          answered, shuffle>>

\* ------------------------------------------------------------------ helpers
At(a, i) == a[i + 1]

Indices == 0 .. (CARD_COUNT - 1)

Min(a, b) == IF a < b THEN a ELSE b

\* JSON text of a Pokemon, as stored in card.dataset.pokemon; Undefined is
\* the absent attribute.  JSON.parse(undefined) throws a SyntaxError.
Undefined == << >>
JSONstringify(pokemon) == << pokemon >>
JSONparseThrows(text) == text = Undefined
JSONparse(text) == text[1]

\* the null result of fetchRandomPokemon
NullPokemon == [id |-> 0]

\* a card element as createCardElement builds it
createCardElement == [flipped |-> FALSE, matched |-> FALSE, pokemon |-> Undefined]

\* References to card elements.  A grid card is named by its index; a card
\* that createCardElements removed from the page lives on only through the
\* reference that holds it, so the reference carries its state.
Null == [kind |-> "null", idx |-> 0, card |-> createCardElement]
GridRef(i) == [kind |-> "grid", idx |-> i, card |-> createCardElement]
Detached(c) == [kind |-> "detached", idx |-> 0, card |-> c]

Deref(ref, cs) == IF ref.kind = "grid" THEN At(cs, ref.idx) ELSE ref.card

Detach(ref, cs) == IF ref.kind = "grid" THEN Detached(At(cs, ref.idx)) ELSE ref

\* classList.add / classList.remove on the card a reference holds.  A change
\* to a removed card is dropped: every caller clears the reference in the
\* same task, after which nothing can read that card.
SetFlipped(cs, ref, b) ==
  IF ref.kind = "grid" THEN [cs EXCEPT ![ref.idx + 1].flipped = b] ELSE cs

SetMatched(cs, ref, b) ==
  IF ref.kind = "grid" THEN [cs EXCEPT ![ref.idx + 1].matched = b] ELSE cs

\* the program state as one value, so that handlers compose as in the code
State ==
  [structuredCloneDefined |-> structuredCloneDefined,
   cards |-> cards,
   firstSelectedCard |-> firstSelectedCard,
   secondSelectedCard |-> secondSelectedCard,
   isProcessingPair |-> isProcessingPair,
   matchedPairs |-> matchedPairs,
   listenerAttached |-> listenerAttached,
   gridHidden |-> gridHidden,
   loadingShown |-> loadingShown,
   fetches |-> fetches,
   flipBackTimers |-> flipBackTimers,
   completeTimers |-> completeTimers,
   completionMessages |-> completionMessages,
   errorMessages |-> errorMessages,
   deal |-> deal]

Becomes(s) ==
  /\ structuredCloneDefined' = s.structuredCloneDefined
  /\ cards' = s.cards
  /\ firstSelectedCard' = s.firstSelectedCard
  /\ secondSelectedCard' = s.secondSelectedCard
  /\ isProcessingPair' = s.isProcessingPair
  /\ matchedPairs' = s.matchedPairs
  /\ listenerAttached' = s.listenerAttached
  /\ gridHidden' = s.gridHidden
  /\ loadingShown' = s.loadingShown
  /\ fetches' = s.fetches
  /\ flipBackTimers' = s.flipBackTimers
  /\ completeTimers' = s.completeTimers
  /\ completionMessages' = s.completionMessages
  /\ errorMessages' = s.errorMessages
  /\ deal' = s.deal

\* ------------------------------------------------------- js/pokemon.js
\* A request's response: "ok" carries the record's id; "httpError" is a
\* response with ok = false; "networkError" is fetch rejecting.
Response(kind, id) == [kind |-> kind, id |-> id]

\* mutant: a failure is rethrown instead of answered with null
fetchRandomPokemonRethrows(response) ==
  IF response.kind = "ok"
    THEN [state |-> "fulfilled", value |-> [id |-> response.id]]
    ELSE [state |-> "rejected", value |-> [id |-> 0]]

\* fetchRandomPokemon's promise for a given response: it fulfils with the
\* processed Pokemon, or (every failure is caught) with null.
fetchRandomPokemon(response) ==
  IF response.kind = "ok"
    THEN [state |-> "fulfilled", value |-> [id |-> response.id]]
    ELSE [state |-> "fulfilled", value |-> NullPokemon]

Pending == [state |-> "pending", value |-> NullPokemon]

\* Promise.all over settled-or-pending promises: rejected as soon as one is
\* rejected, fulfilled once all are fulfilled, pending otherwise.
PromiseAll(ps) ==
  IF \E k \in 1 .. Len(ps) : ps[k].state = "rejected" THEN "rejected"
  ELSE IF \A k \in 1 .. Len(ps) : ps[k].state = "fulfilled" THEN "fulfilled"
  ELSE "pending"

NotNull(pokemon) == pokemon # NullPokemon

\* the tail of fetchMultipleRandomPokemon once Promise.all has settled
fetchMultipleRandomPokemon(ps) ==
  IF PromiseAll(ps) = "rejected"
    THEN << >>
    ELSE SelectSeq([k \in 1 .. Len(ps) |-> ps[k].value], NotNull)

\* ------------------------------------------------------- js/app.js
\* mutant: one copy of each Pokemon
RECURSIVE pokemonPairsOnce(_)
pokemonPairsOnce(pokemonList) ==
  IF pokemonList = << >> THEN << >>
  ELSE << Head(pokemonList) >> \o pokemonPairsOnce(Tail(pokemonList))

\* pokemonPairs: two copies of each Pokemon, in list order
RECURSIVE pokemonPairs(_)
pokemonPairs(pokemonList) ==
  IF pokemonList = << >> THEN << >>
  ELSE << Head(pokemonList), Head(pokemonList) >> \o pokemonPairs(Tail(pokemonList))

\* mutant: element j is copied to index i and element i is lost
SwapCopies(a, i, j) == [a EXCEPT ![i + 1] = At(a, j)]

Swap(a, i, j) == [a EXCEPT ![i + 1] = At(a, j), ![j + 1] = At(a, i)]

\* The loop of shuffleArray from index i down to 1; random[i] is the j that
\* Math.floor(Math.random() * (i + 1)) yields at index i.
RECURSIVE shuffleFrom(_, _, _)
shuffleFrom(a, i, random) ==
  IF i > 0 THEN shuffleFrom(Swap(a, i, random[i]), i - 1, random) ELSE a

shuffleArray(array, random) == shuffleFrom(array, Len(array) - 1, random)


resetSelection(s) ==
  [s EXCEPT !.firstSelectedCard = Null, !.secondSelectedCard = Null]

\* mutant: the selection is not reset after a match
handleMatchKeepsSelection(s) ==
  LET marked == SetMatched(SetMatched(s.cards, s.firstSelectedCard, TRUE),
                           s.secondSelectedCard, TRUE)
      counted == [s EXCEPT !.cards = marked, !.matchedPairs = @ + 1]
  IN IF counted.matchedPairs = TOTAL_PAIRS
       THEN [counted EXCEPT !.completeTimers = Append(@, s.deal)]
       ELSE counted

\* mutant: completion is scheduled one match early
handleMatchOffByOne(s) ==
  LET marked == SetMatched(SetMatched(s.cards, s.firstSelectedCard, TRUE),
                           s.secondSelectedCard, TRUE)
      counted == [s EXCEPT !.cards = marked, !.matchedPairs = @ + 1]
      timed == IF counted.matchedPairs = TOTAL_PAIRS - 1
                 THEN [counted EXCEPT !.completeTimers = Append(@, s.deal)]
                 ELSE counted
  IN resetSelection(timed)

handleMatch(s) ==
  LET marked == SetMatched(SetMatched(s.cards, s.firstSelectedCard, TRUE),
                           s.secondSelectedCard, TRUE)
      counted == [s EXCEPT !.cards = marked, !.matchedPairs = @ + 1]
      timed == IF counted.matchedPairs = TOTAL_PAIRS
                 THEN [counted EXCEPT !.completeTimers = Append(@, s.deal)]
                 ELSE counted
  IN resetSelection(timed)

\* mutant: the timer is set without engaging the lock
handleNonMatchNoLock(s) ==
  [s EXCEPT !.flipBackTimers = Append(@, [first |-> s.firstSelectedCard,
                                          second |-> s.secondSelectedCard,
                                          deal |-> s.deal])]

\* mutant: the selection is reset as soon as the timer is set
handleNonMatchClearsSelection(s) ==
  resetSelection([s EXCEPT !.isProcessingPair = TRUE,
                           !.flipBackTimers = Append(@, [first |-> s.firstSelectedCard,
                                                         second |-> s.secondSelectedCard,
                                                         deal |-> s.deal])])

\* a pending flip-back timer; its fields are history (the callback reads the
\* globals when it runs, it captures nothing)
handleNonMatch(s) ==
  [s EXCEPT !.isProcessingPair = TRUE,
            !.flipBackTimers = Append(@, [first |-> s.firstSelectedCard,
                                          second |-> s.secondSelectedCard,
                                          deal |-> s.deal])]

\* mutant: the SyntaxError of JSON.parse is not caught
checkForMatchNoCatch(s) ==
  LET firstText == Deref(s.firstSelectedCard, s.cards).pokemon
      secondText == Deref(s.secondSelectedCard, s.cards).pokemon
  IN IF JSONparseThrows(firstText) \/ JSONparseThrows(secondText)
       THEN s
       ELSE IF JSONparse(firstText).id = JSONparse(secondText).id
              THEN handleMatch(s)
              ELSE handleNonMatch(s)

checkForMatch(s) ==
  LET firstText == Deref(s.firstSelectedCard, s.cards).pokemon
      secondText == Deref(s.secondSelectedCard, s.cards).pokemon
  IN IF JSONparseThrows(firstText) \/ JSONparseThrows(secondText)
       THEN resetSelection(s)
       ELSE IF JSONparse(firstText).id = JSONparse(secondText).id
              THEN handleMatch(s)
              ELSE handleNonMatch(s)

\* mutant: the isProcessingPair guard is missing
handleCardClickNoLock(s, i) ==
  LET card == At(s.cards, i)
      flippedNow == [s EXCEPT !.cards[i + 1].flipped = TRUE]
  IN IF card.flipped \/ card.matched THEN s
     ELSE IF s.firstSelectedCard = Null
       THEN [flippedNow EXCEPT !.firstSelectedCard = GridRef(i)]
     ELSE IF s.firstSelectedCard # GridRef(i)
       THEN checkForMatch([flippedNow EXCEPT !.secondSelectedCard = GridRef(i)])
     ELSE flippedNow

handleCardClick(s, i) ==
  LET card == At(s.cards, i)
      flippedNow == [s EXCEPT !.cards[i + 1].flipped = TRUE]
  IN IF card.flipped \/ card.matched THEN s
     ELSE IF s.isProcessingPair THEN s
     ELSE IF s.firstSelectedCard = Null
       THEN [flippedNow EXCEPT !.firstSelectedCard = GridRef(i)]
     ELSE IF s.firstSelectedCard # GridRef(i)
       THEN checkForMatch([flippedNow EXCEPT !.secondSelectedCard = GridRef(i)])
     ELSE flippedNow

\* mutant: the callback does not release the processing lock
flipBackKeepsLock(s) ==
  IF s.firstSelectedCard = Null THEN s
  ELSE IF s.secondSelectedCard = Null
    THEN [s EXCEPT !.cards = SetFlipped(s.cards, s.firstSelectedCard, FALSE)]
  ELSE LET back == SetFlipped(SetFlipped(s.cards, s.firstSelectedCard, FALSE),
                              s.secondSelectedCard, FALSE)
       IN resetSelection([s EXCEPT !.cards = back])

\* The callback of handleNonMatch's timer.  A null selection makes the
\* classList access throw a TypeError, which ends the callback there.
flipBack(s) ==
  IF s.firstSelectedCard = Null THEN s
  ELSE IF s.secondSelectedCard = Null
    THEN [s EXCEPT !.cards = SetFlipped(s.cards, s.firstSelectedCard, FALSE)]
  ELSE LET back == SetFlipped(SetFlipped(s.cards, s.firstSelectedCard, FALSE),
                              s.secondSelectedCard, FALSE)
       IN [resetSelection([s EXCEPT !.cards = back]) EXCEPT !.isProcessingPair = FALSE]

showGameComplete(s) == [s EXCEPT !.completionMessages = @ + 1]

showErrorMessage(s) == [s EXCEPT !.errorMessages = @ + 1]

\* fetchAndAssignPokemon up to its first await
startFetch(s, caller) ==
  [s EXCEPT !.fetches = @ \cup {[deal |-> s.deal + 1, caller |-> caller]},
            !.deal = @ + 1]

createCardElements(s) ==
  [s EXCEPT !.cards = [i \in 1 .. CARD_COUNT |-> createCardElement],
            !.firstSelectedCard = Detach(@, s.cards),
            !.secondSelectedCard = Detach(@, s.cards)]

\* initApp up to the await of fetchAndAssignPokemon
initApp(s) ==
  startFetch(createCardElements([s EXCEPT !.loadingShown = TRUE, !.gridHidden = TRUE]),
             "initApp")

\* what runs when a fetchAndAssignPokemon call returns: initApp's lines after
\* the await, or nothing (resetGame does not wait for it)
afterFetch(s, caller) ==
  IF caller = "initApp"
    THEN [s EXCEPT !.listenerAttached = TRUE, !.loadingShown = FALSE,
                   !.gridHidden = FALSE]
    ELSE s

\* mutant: matchedPairs is not reset
resetGameKeepsCount(s) ==
  LET cleared == [i \in 1 .. CARD_COUNT |->
                    [s.cards[i] EXCEPT !.matched = FALSE, !.flipped = FALSE]]
  IN startFetch([s EXCEPT !.firstSelectedCard = Null,
                          !.secondSelectedCard = Null,
                          !.isProcessingPair = FALSE,
                          !.cards = cleared],
                "resetGame")

resetGame(s) ==
  LET cleared == [i \in 1 .. CARD_COUNT |->
                    [s.cards[i] EXCEPT !.matched = FALSE, !.flipped = FALSE]]
  IN startFetch([s EXCEPT !.firstSelectedCard = Null,
                          !.secondSelectedCard = Null,
                          !.isProcessingPair = FALSE,
                          !.matchedPairs = 0,
                          !.cards = cleared],
                "resetGame")

assignPokemonToCard(card, pokemon) == [card EXCEPT !.pokemon = JSONstringify(pokemon)]

\* the assignment loop of fetchAndAssignPokemon
assignAll(cs, shuffledPairs) ==
  [i \in 1 .. CARD_COUNT |->
     IF i - 1 < Min(CARD_COUNT, Len(shuffledPairs))
       THEN assignPokemonToCard(cs[i], shuffledPairs[i])
       ELSE cs[i]]

\* fetchAndAssignPokemon from its first await to its return.  Its two awaits
\* (the batch, then the loading delay) are one suspension here: the code
\* between them builds pokemonPairs and shuffledPairs, locals that nothing
\* else reads, or, without structuredClone, throws a ReferenceError at the
\* shuffle, which the catch turns into the error message.
afterAwait(s, f, pokemonList, random) ==
  LET pairs == pokemonPairs(pokemonList)
      shuffledPairs == shuffleArray(pairs, random)
      rest == s.fetches \ {f}
  IN IF s.structuredCloneDefined
       THEN afterFetch([s EXCEPT !.cards = assignAll(s.cards, shuffledPairs),
                                 !.fetches = rest],
                       f.caller)
       ELSE afterFetch(showErrorMessage([s EXCEPT !.fetches = rest]), f.caller)

\* ------------------------------------------------------------------ inputs
\* the responses one batch of FetchCount requests may get
Ok(ids) == [k \in 1 .. Len(ids) |-> Response("ok", ids[k])]

BatchResponses ==
  { Ok(<<1, 2, 3, 4, 5, 6>>),
    [k \in 1 .. FetchCount |->
       IF k = 2 THEN Response("ok", 7) ELSE Response("httpError", 0)],
    [k \in 1 .. FetchCount |-> Response("networkError", 0)] }

\* the draws of one shuffle on the board: Math.random() returns 0 each time,
\* so j = 0 at every index (the shuffle then rotates the pairs by one slot)
RandomDraws == { [i \in 1 .. (2 * FetchCount) |-> 0] }

Settled(responses) == [k \in 1 .. Len(responses) |-> fetchRandomPokemon(responses[k])]

\* ----------------------------------------------------------------- actions
FetchUnused ==
  /\ promises = << >>
  /\ batch = [state |-> "idle", value |-> << >>]
  /\ answered = << >>

ShuffleUnused == shuffle = [state |-> "idle", list |-> << >>, random |-> << >>, result |-> << >>]

Init ==
  /\ structuredCloneDefined \in BOOLEAN
  /\ cards = << >>
  /\ firstSelectedCard = Null
  /\ secondSelectedCard = Null
  /\ isProcessingPair = FALSE
  /\ matchedPairs = 0
  /\ listenerAttached = FALSE
  /\ gridHidden = FALSE
  /\ loadingShown = FALSE
  /\ fetches = {}
  /\ flipBackTimers = << >>
  /\ completeTimers = << >>
  /\ completionMessages = 0
  /\ errorMessages = 0
  /\ deal = 0
  /\ domLoaded = FALSE
  /\ FetchUnused
  /\ ShuffleUnused

\* document's DOMContentLoaded listener
DOMContentLoaded ==
  /\ ~domLoaded
  /\ domLoaded' = TRUE
  /\ Becomes(initApp(State))
  /\ UNCHANGED <<promises, batch, answered, shuffle>>

\* the Try Again button of an error message
RetryClick(maxDeals) ==
  /\ errorMessages > 0
  /\ deal < maxDeals
  /\ Becomes(initApp([State EXCEPT !.errorMessages = @ - 1]))
  /\ UNCHANGED <<domLoaded, promises, batch, answered, shuffle>>

\* a suspended fetchAndAssignPokemon resumes with its batch's responses
FetchResumes(f, responses, random) ==
  /\ f \in fetches
  /\ Becomes(afterAwait(State, f, fetchMultipleRandomPokemon(Settled(responses)), random))
  /\ UNCHANGED <<domLoaded, promises, batch, answered, shuffle>>

UnboundFlipped == {k \in Indices : At(cards, k).pokemon = Undefined /\ At(cards, k).flipped}

\* the user clicks card i; the grid must be listening and on screen
CardClick(i) ==
  /\ listenerAttached
  /\ ~gridHidden
  /\ (At(cards, i).pokemon = Undefined /\ ~At(cards, i).flipped /\ ~isProcessingPair)
       => Cardinality(UnboundFlipped) < MaxUnboundFlips
  /\ Becomes(handleCardClick(State, i))
  /\ UNCHANGED <<domLoaded, promises, batch, answered, shuffle>>

FlipBackTimerFires ==
  /\ flipBackTimers # << >>
  /\ Becomes(flipBack([State EXCEPT !.flipBackTimers = Tail(@)]))
  /\ UNCHANGED <<domLoaded, promises, batch, answered, shuffle>>

CompleteTimerFires ==
  /\ completeTimers # << >>
  /\ Becomes(showGameComplete([State EXCEPT !.completeTimers = Tail(@)]))
  /\ UNCHANGED <<domLoaded, promises, batch, answered, shuffle>>

\* the Play Again button of a completion message
PlayAgainClick(maxDeals) ==
  /\ completionMessages > 0
  /\ deal < maxDeals
  /\ Becomes(resetGame([State EXCEPT !.completionMessages = @ - 1]))
  /\ UNCHANGED <<domLoaded, promises, batch, answered, shuffle>>

Step(maxDeals) ==
  \/ DOMContentLoaded
  \/ RetryClick(maxDeals)
  \/ \E f \in fetches : \E responses \in BatchResponses :
       \E random \in RandomDraws : FetchResumes(f, responses, random)
  \/ \E i \in Indices : CardClick(i)
  \/ FlipBackTimerFires
  \/ CompleteTimerFires
  \/ PlayAgainClick(maxDeals)

Next == Step(MaxDeals)

Spec == Init /\ [][Next]_vars

\* fairness: the event loop runs every timer callback that is due
FairNext == Step(MaxFairDeals)

FairSpec ==
  /\ Init
  /\ [][FairNext]_vars
  /\ WF_vars(FlipBackTimerFires)
  /\ WF_vars(CompleteTimerFires)

\* ------------------------------------------- the batch fetcher on its own
boardVars == <<structuredCloneDefined, cards, firstSelectedCard, secondSelectedCard,
               isProcessingPair, matchedPairs, listenerAttached, gridHidden,
               loadingShown, fetches, flipBackTimers, completeTimers,
               completionMessages, errorMessages, deal, domLoaded>>

NoResponse == Response("none", 0)

FetchResponses ==
  {Response("ok", id) : id \in 1 .. MaxFetchId}
    \cup {Response("httpError", 0), Response("networkError", 0)}

\* fetchMultipleRandomPokemon(count) up to its await: count requests issued
CallFetchMultiple(count) ==
  /\ batch.state = "idle"
  /\ promises' = [k \in 1 .. count |-> Pending]
  /\ answered' = [k \in 1 .. count |-> NoResponse]
  /\ batch' = [state |-> "awaiting", value |-> << >>]
  /\ UNCHANGED boardVars
  /\ UNCHANGED shuffle

\* request k gets its response and fetchRandomPokemon's promise settles
RequestSettles(k, response) ==
  /\ batch.state = "awaiting"
  /\ k \in 1 .. Len(promises)
  /\ promises[k].state = "pending"
  /\ promises' = [promises EXCEPT ![k] = fetchRandomPokemon(response)]
  /\ answered' = [answered EXCEPT ![k] = response]
  /\ UNCHANGED batch
  /\ UNCHANGED boardVars
  /\ UNCHANGED shuffle

\* Promise.all has settled: the call filters and returns
BatchReturns ==
  /\ batch.state = "awaiting"
  /\ PromiseAll(promises) # "pending"
  /\ batch' = [state |-> "returned", value |-> fetchMultipleRandomPokemon(promises)]
  /\ UNCHANGED <<promises, answered>>
  /\ UNCHANGED boardVars
  /\ UNCHANGED shuffle

FetchNext ==
  \/ \E count \in 0 .. MaxCount : CallFetchMultiple(count)
  \/ \E k \in 1 .. MaxCount : \E response \in FetchResponses : RequestSettles(k, response)
  \/ BatchReturns

FetchSpec == Init /\ [][FetchNext]_vars

\* --------------------------------- pair building and shuffle on their own
fetcherVars == <<promises, batch, answered>>

\* the lists fetchMultipleRandomPokemon can hand over: distinct ids, or the
\* last request having drawn the id of the first
PokemonLists ==
  { [k \in 1 .. n |-> [id |-> k]] : n \in 0 .. MaxShuffleCount }
    \cup { [k \in 1 .. n |-> [id |-> IF k = n THEN 1 ELSE k]] : n \in 2 .. MaxShuffleCount }

\* every sequence of draws a shuffle of n elements can make: at index i,
\* Math.floor(Math.random() * (i + 1)) is any of 0..i
RECURSIVE Draws(_)
Draws(n) ==
  IF n <= 1 THEN { << >> }
  ELSE { Append(r, j) : r \in Draws(n - 1), j \in 0 .. (n - 1) }

\* lines 109-119 of fetchAndAssignPokemon: the pairs, then the shuffle.
\* Without structuredClone the shuffle throws and returns nothing.
BuildShuffledPairs ==
  /\ shuffle.state = "idle"
  /\ structuredCloneDefined
  /\ \E list \in PokemonLists : \E random \in Draws(2 * Len(list)) :
       shuffle' = [state |-> "returned", list |-> list, random |-> random,
                   result |-> shuffleArray(pokemonPairs(list), random)]
  /\ UNCHANGED boardVars
  /\ UNCHANGED fetcherVars

ShuffleNext == BuildShuffledPairs

ShuffleSpec == Init /\ [][ShuffleNext]_vars

\* ------------------------------------------------------------------ claims
Hidden(c) == ~c.flipped /\ ~c.matched

Bound(c) == c.pokemon # Undefined

IdOf(c) == JSONparse(c.pokemon).id

MatchedSlots == {i \in Indices : cards # << >> /\ At(cards, i).matched}

\* card i is picked second: another grid card is pending, input is not
\* locked, and card i is hidden and unmatched
SecondPick(i) ==
  /\ firstSelectedCard.kind = "grid"
  /\ firstSelectedCard.idx # i
  /\ secondSelectedCard = Null
  /\ ~isProcessingPair
  /\ Hidden(At(cards, i))
  /\ Bound(At(cards, i))
  /\ Bound(At(cards, firstSelectedCard.idx))

\* the state a click on card i leads to, and whether the user can click
Clicked(i) == handleCardClick(State, i)

Clickable == listenerAttached /\ ~gridHidden

\* C1: a second pick whose identifier equals the pending pick's marks both
\* slots matched, adds exactly 1 to the counter, clears both selections and
\* leaves the input lock off, all within the click.
C1_MatchResolvesInStep ==
  \A i \in Indices :
    (/\ Clickable
     /\ SecondPick(i)
     /\ IdOf(At(cards, i)) = IdOf(At(cards, firstSelectedCard.idx)))
    => (/\ At(Clicked(i).cards, i).matched
        /\ At(Clicked(i).cards, firstSelectedCard.idx).matched
        /\ Clicked(i).matchedPairs = matchedPairs + 1
        /\ Clicked(i).firstSelectedCard = Null
        /\ Clicked(i).secondSelectedCard = Null
        /\ ~Clicked(i).isProcessingPair)

\* a match has just been resolved: one pair matched, nothing pending
C1_Witness ==
  /\ matchedPairs = 1
  /\ Cardinality(MatchedSlots) = 2
  /\ \A i, j \in MatchedSlots : IdOf(At(cards, i)) = IdOf(At(cards, j))
  /\ firstSelectedCard = Null
  /\ secondSelectedCard = Null
  /\ ~isProcessingPair

\* a second pick with an unequal identifier: the lock engages within the
\* click, one timer is set, both picks stay pending and revealed
C2_PickEngagesLock ==
  \A i \in Indices :
    (/\ Clickable
     /\ SecondPick(i)
     /\ IdOf(At(cards, i)) # IdOf(At(cards, firstSelectedCard.idx)))
    => (/\ Clicked(i).isProcessingPair
        /\ Len(Clicked(i).flipBackTimers) = Len(flipBackTimers) + 1
        /\ Clicked(i).firstSelectedCard = firstSelectedCard
        /\ Clicked(i).secondSelectedCard = GridRef(i)
        /\ At(Clicked(i).cards, i).flipped
        /\ At(Clicked(i).cards, firstSelectedCard.idx).flipped
        /\ Clicked(i).matchedPairs = matchedPairs)

TimerFired == flipBack([State EXCEPT !.flipBackTimers = Tail(@)])

\* the timer's callback hides the two slots whose mismatch set it, clears
\* both selections and releases the lock, and leaves the counter alone
C2_TimerResolves ==
  flipBackTimers # << >>
    => (/\ Head(flipBackTimers).first.kind = "grid"
        /\ Head(flipBackTimers).second.kind = "grid"
        /\ Hidden(At(TimerFired.cards, Head(flipBackTimers).first.idx))
        /\ Hidden(At(TimerFired.cards, Head(flipBackTimers).second.idx))
        /\ TimerFired.firstSelectedCard = Null
        /\ TimerFired.secondSelectedCard = Null
        /\ ~TimerFired.isProcessingPair
        /\ TimerFired.matchedPairs = matchedPairs)

\* C2: a second pick with an unequal identifier engages the lock at once;
\* while the lock is on the counter does not move; when the timer fires both
\* picked slots are hidden, both selections cleared and the lock released;
\* and with the timer fair, every mismatch is resolved eventually.
C2_MismatchCycle ==
  /\ [](C2_PickEngagesLock /\ C2_TimerResolves)
  /\ [][isProcessingPair => matchedPairs' = matchedPairs]_vars
  /\ (isProcessingPair ~> ~isProcessingPair)

\* a mismatch is being resolved, two pairs into a deal
C2_Witness ==
  /\ isProcessingPair
  /\ Len(flipBackTimers) = 1
  /\ matchedPairs = 2
  /\ firstSelectedCard.kind = "grid"
  /\ secondSelectedCard.kind = "grid"
  /\ At(cards, firstSelectedCard.idx).flipped
  /\ At(cards, secondSelectedCard.idx).flipped
  /\ IdOf(At(cards, firstSelectedCard.idx)) # IdOf(At(cards, secondSelectedCard.idx))

\* C3: a click on a revealed or matched slot, or while the input lock is
\* on, or on the slot held as first pick, changes nothing.
C3_IgnoredClicks ==
  \A i \in Indices :
    (/\ Clickable
     /\ \/ At(cards, i).flipped
        \/ At(cards, i).matched
        \/ isProcessingPair
        \/ firstSelectedCard = GridRef(i))
    => Clicked(i) = State

\* a click can arrive during a mismatch resolution, on a hidden slot
C3_Witness ==
  /\ isProcessingPair
  /\ Clickable
  /\ \E i \in Indices : Hidden(At(cards, i)) /\ ENABLED CardClick(i)

\* C4: when a deal's batch comes back empty (in a browser where the shuffle
\* runs, so that the batch decides the outcome), the step that ends the deal
\* raises the error message and leaves no clickable grid on the page.
C4_EmptyBatchIsAnError ==
  [][\A f \in fetches : \A responses \in BatchResponses : \A random \in RandomDraws :
       (/\ structuredCloneDefined
        /\ fetchMultipleRandomPokemon(Settled(responses)) = << >>
        /\ FetchResumes(f, responses, random))
       => (errorMessages' = errorMessages + 1 /\ ~Clickable')]_vars

\* C5: once a deal has bound some slots and left others unbound, an unbound
\* slot is never revealed and never a pending selection.
C5_UnboundNeverSelected ==
  (cards # << >> /\ \E k \in Indices : Bound(At(cards, k)))
    => \A i \in Indices :
         ~Bound(At(cards, i))
           => (/\ ~At(cards, i).flipped
               /\ firstSelectedCard # GridRef(i)
               /\ secondSelectedCard # GridRef(i))

\* C6: the counter stays in 0..TOTAL_PAIRS; a step leaves it alone, or adds
\* 1 while two more slots become matched, or starts a new deal at 0.
C6_CounterBounded ==
  /\ [](matchedPairs \in 0 .. TOTAL_PAIRS)
  /\ [][\/ matchedPairs' = matchedPairs
         \/ /\ matchedPairs' = matchedPairs + 1
            /\ Cardinality(MatchedSlots') = Cardinality(MatchedSlots) + 2
         \/ /\ deal' = deal + 1
            /\ matchedPairs' = 0]_vars

\* a replay deal in which the counter has gone back up to TOTAL_PAIRS
C6_Witness ==
  /\ deal >= 2
  /\ matchedPairs = TOTAL_PAIRS
  /\ Cardinality(MatchedSlots) = CARD_COUNT

Raised == Len(completeTimers) + completionMessages

\* C7: completion is scheduled in exactly the step that takes the counter to
\* TOTAL_PAIRS; at most one completion is scheduled or shown at a time, and
\* one is exactly while the counter is TOTAL_PAIRS; with the timer fair the
\* message is shown after the counter reaches TOTAL_PAIRS.
C7_CompleteOncePerDeal ==
  /\ [](Raised <= 1 /\ (Raised = 1 <=> matchedPairs = TOTAL_PAIRS))
  /\ [][(Len(completeTimers') > Len(completeTimers))
          <=> (matchedPairs' = TOTAL_PAIRS /\ matchedPairs # TOTAL_PAIRS)]_vars
  /\ [][completionMessages' > completionMessages => matchedPairs = TOTAL_PAIRS]_vars
  /\ ((matchedPairs = TOTAL_PAIRS) ~> (completionMessages = 1))

C7_Witness ==
  /\ completionMessages = 1
  /\ completeTimers = << >>
  /\ matchedPairs = TOTAL_PAIRS
  /\ Cardinality(MatchedSlots) = CARD_COUNT

SessionInitial ==
  /\ firstSelectedCard = Null
  /\ secondSelectedCard = Null
  /\ ~isProcessingPair
  /\ matchedPairs = 0
  /\ \A i \in Indices : Hidden(At(cards, i))

\* C8: every step that starts a deal (initApp at load, resetGame, initApp
\* from Try Again) leaves the session state at its initial values.
C8_NewDealStartsInitial ==
  [][deal' # deal => SessionInitial']_vars

\* C9: when a fetchAndAssignPokemon call of an earlier deal resumes after a
\* later deal has started, it changes no card and no session variable.
C9_StaleFetchIgnored ==
  [][\A f \in fetches : \A responses \in BatchResponses : \A random \in RandomDraws :
       (f.deal < deal /\ FetchResumes(f, responses, random))
       => UNCHANGED <<cards, firstSelectedCard, secondSelectedCard,
                      isProcessingPair, matchedPairs>>]_vars

Successes == {k \in 1 .. Len(answered) : answered[k].kind = "ok"}

Rank(k) == Cardinality({j \in Successes : j <= k})

\* C10: the batch returns only after every request has its response, and
\* its result is exactly the Pokemon of the successful requests, in call
\* order; a failed request removes nothing else.
C10_BatchReturnsSuccesses ==
  batch.state = "returned"
    => (/\ \A k \in 1 .. Len(answered) : answered[k] # NoResponse
        /\ Len(batch.value) = Cardinality(Successes)
        /\ \A k \in Successes : batch.value[Rank(k)] = [id |-> answered[k].id])

C10_Witness ==
  /\ batch.state = "returned"
  /\ Len(answered) = 3
  /\ answered[1].kind = "networkError"
  /\ answered[2].kind = "ok"
  /\ answered[3].kind = "httpError"
  /\ Len(batch.value) = 1

\* ------------------------------------------------- pairs and the shuffle
Occurrences(seq, id) == Cardinality({k \in 1 .. Len(seq) : seq[k].id = id})

IdsOf(seq) == {seq[k].id : k \in 1 .. Len(seq)}

Distinct(seq) == \A k, m \in 1 .. Len(seq) : seq[k].id = seq[m].id => k = m

\* C11: pair building followed by the shuffle returns 2N elements, two for
\* each Pokemon of the list: an identifier occurs twice as often as in the
\* list, so exactly twice when the list's identifiers are distinct,
\* whatever the draws.
C11_ShuffledPairs ==
  (shuffle.state = "returned" /\ Len(shuffle.list) \in 1 .. (CARD_COUNT \div 2))
    => (/\ Len(shuffle.result) = 2 * Len(shuffle.list)
        /\ IdsOf(shuffle.result) = IdsOf(shuffle.list)
        /\ \A id \in IdsOf(shuffle.list) :
             Occurrences(shuffle.result, id) = 2 * Occurrences(shuffle.list, id)
        /\ Distinct(shuffle.list)
             => \A id \in IdsOf(shuffle.list) : Occurrences(shuffle.result, id) = 2)

\* three distinct Pokemon, and draws that really moved the pairs
C11_Witness ==
  /\ shuffle.state = "returned"
  /\ Len(shuffle.list) = MaxShuffleCount
  /\ Distinct(shuffle.list)
  /\ shuffle.result # pokemonPairs(shuffle.list)
  /\ shuffle.result[1].id = shuffle.list[Len(shuffle.list)].id

Identity(n) == [k \in 1 .. n |-> k]

\* where each output position's element came from, for given draws
Sources(random, n) == shuffleArray(Identity(n), random)

IsPermutation(f, n) ==
  /\ Len(f) = n
  /\ \A k \in 1 .. n : f[k] \in 1 .. n
  /\ \A k, m \in 1 .. n : f[k] = f[m] => k = m

RECURSIVE Factorial(_)
Factorial(n) == IF n <= 1 THEN 1 ELSE n * Factorial(n - 1)

ShuffleLen == Len(shuffle.result)

\* C12: the shuffle's result is its input rearranged by a permutation of
\* the positions (so the identifiers' multiset is kept); the first swap puts
\* the element drawn among 0..last at the last index; no other sequence of
\* draws gives the same permutation, and there are as many sequences of
\* draws as permutations (n!), so each permutation comes from exactly one.
C12_FisherYates ==
  shuffle.state = "returned"
    => LET pairs == pokemonPairs(shuffle.list)
           n == Len(pairs)
           from == Sources(shuffle.random, n)
       IN /\ ShuffleLen = n
          /\ IsPermutation(from, n)
          /\ \A k \in 1 .. n : shuffle.result[k] = pairs[from[k]]
          /\ \A id \in IdsOf(pairs) :
               Occurrences(shuffle.result, id) = Occurrences(pairs, id)
          /\ n >= 2 => /\ shuffle.random[n - 1] \in 0 .. (n - 1)
                       /\ shuffle.result[n] = At(pairs, shuffle.random[n - 1])
          /\ n <= MaxExhaustiveLen
               => /\ \A other \in Draws(n) :
                       Sources(other, n) = from => other = shuffle.random
                  /\ Cardinality(Draws(n)) = Factorial(n)

\* a shuffle of six elements whose draws reverse the array
C12_Witness ==
  /\ shuffle.state = "returned"
  /\ ShuffleLen = 2 * MaxShuffleCount
  /\ \A k \in 1 .. ShuffleLen :
       Sources(shuffle.random, ShuffleLen)[k] = ShuffleLen + 1 - k

\* C13: the Pokemon a batch returns for one deal have pairwise distinct
\* identifiers.
C13_EntitiesUnique ==
  batch.state = "returned" => Distinct(batch.value)

\* ------------------------------------------------------ the board, again
\* card i is picked second and the match check cannot read a binding
UnreadablePick(i) ==
  /\ Clickable
  /\ firstSelectedCard # Null
  /\ firstSelectedCard # GridRef(i)
  /\ ~isProcessingPair
  /\ Hidden(At(cards, i))
  /\ \/ ~Bound(At(cards, i))
     \/ ~Bound(Deref(firstSelectedCard, cards))

\* C14: when the match check cannot read a picked slot's binding, the click
\* leaves the counter and the matched slots as they were, sets no timer,
\* clears both selections and leaves the lock off; the session then takes a
\* click on any hidden slot as a first pick.
C14_UnreadableIsNoMatch ==
  \A i \in Indices :
    UnreadablePick(i)
      => (/\ Clicked(i).matchedPairs = matchedPairs
          /\ \A k \in Indices : At(Clicked(i).cards, k).matched = At(cards, k).matched
          /\ Clicked(i).firstSelectedCard = Null
          /\ Clicked(i).secondSelectedCard = Null
          /\ ~Clicked(i).isProcessingPair
          /\ Clicked(i).flipBackTimers = flipBackTimers
          /\ Clicked(i).completeTimers = completeTimers
          /\ \A k \in Indices :
               Hidden(At(Clicked(i).cards, k))
                 => handleCardClick(Clicked(i), k).firstSelectedCard = GridRef(k))

\* a bound first pick and an unbound second pick have been through the match
\* check: both lie revealed, nothing is pending, no timer is set
C14_Witness ==
  /\ Clickable
  /\ Cardinality(UnboundFlipped) = 1
  /\ \E k \in Indices : Bound(At(cards, k)) /\ At(cards, k).flipped /\ ~At(cards, k).matched
  /\ firstSelectedCard = Null
  /\ secondSelectedCard = Null
  /\ ~isProcessingPair
  /\ flipBackTimers = << >>
  /\ matchedPairs = 0

RevealedUnmatched == {i \in Indices : At(cards, i).flipped /\ ~At(cards, i).matched}

PendingSelections ==
  (IF firstSelectedCard = Null THEN {} ELSE {firstSelectedCard})
    \cup (IF secondSelectedCard = Null THEN {} ELSE {secondSelectedCard})

\* C15: the slots that are revealed and not matched are exactly the slots
\* held as pending selections, so there are at most 2 of them (stated for a
\* browser where the shuffle runs, so that no deal ends in the error path).
C15_RevealedArePending ==
  (structuredCloneDefined /\ cards # << >>)
    => (/\ Cardinality(RevealedUnmatched) <= 2
        /\ Cardinality(RevealedUnmatched) = Cardinality(PendingSelections)
        /\ \A i \in RevealedUnmatched : GridRef(i) \in PendingSelections)

\* the sequence a resuming fetchAndAssignPokemon call seeds the grid with
SeedOf(responses, random) ==
  shuffleArray(pokemonPairs(fetchMultipleRandomPokemon(Settled(responses))), random)

\* C16: the step that seeds the grid with a shuffled sequence of k Pokemon
\* binds slot i to the sequence's i-th element for i < min(k, CARD_COUNT)
\* and leaves every slot from k on unbound, in the first deal and in replays.
C16_SeedingByIndex ==
  [][\A f \in fetches : \A responses \in BatchResponses : \A random \in RandomDraws :
       (structuredCloneDefined /\ FetchResumes(f, responses, random))
       => LET seq == SeedOf(responses, random)
          IN \A i \in Indices :
               IF i < Min(Len(seq), CARD_COUNT)
                 THEN At(cards', i).pokemon = JSONstringify(At(seq, i))
                 ELSE ~Bound(At(cards', i))]_vars

\* C17: the lock is on exactly while a mismatch timer is pending, and then
\* both selections are populated.
C17_LockIffTimer ==
  /\ isProcessingPair <=> flipBackTimers # << >>
  /\ isProcessingPair => (firstSelectedCard # Null /\ secondSelectedCard # Null)
  /\ Len(flipBackTimers) <= 1

\* the lock is on in a replay deal
C17_Witness ==
  /\ isProcessingPair
  /\ flipBackTimers # << >>
  /\ deal >= 2
  /\ fetches = {}

\* C18: whenever a mismatch timer is pending (so whenever it fires), both
\* selections are populated and are the two grid slots whose mismatch set
\* the timer, in the deal that set it; the callback hides those two slots
\* and changes no other slot.
C18_TimerFindsItsPicks ==
  flipBackTimers # << >>
    => (/\ firstSelectedCard = Head(flipBackTimers).first
        /\ secondSelectedCard = Head(flipBackTimers).second
        /\ firstSelectedCard.kind = "grid"
        /\ secondSelectedCard.kind = "grid"
        /\ firstSelectedCard # secondSelectedCard
        /\ Head(flipBackTimers).deal = deal
        /\ \A k \in Indices :
             At(TimerFired.cards, k) =
               IF k \in {firstSelectedCard.idx, secondSelectedCard.idx}
                 THEN [At(cards, k) EXCEPT !.flipped = FALSE]
                 ELSE At(cards, k))

\* a mismatch timer is pending in a replay deal, after a completion, a
\* play-again and the replay's seeding
C18_Witness ==
  /\ flipBackTimers # << >>
  /\ deal >= 2
  /\ fetches = {}
  /\ matchedPairs >= 1
  /\ At(cards, Head(flipBackTimers).first.idx).flipped
  /\ At(cards, Head(flipBackTimers).second.idx).flipped

\* a replay deal is loading: resetGame's fetchAndAssignPokemon call has not
\* assigned its Pokemon yet
ReplayLoading == \E f \in fetches : f.caller = "resetGame" /\ f.deal = deal

\* C19: while a replay deal is loading, a click on any slot changes nothing.
C19_NoPickWhileReplayLoads ==
  (ReplayLoading /\ Clickable) => \A i \in Indices : Clicked(i) = State

AllBoundMatched ==
  /\ cards # << >>
  /\ \E i \in Indices : Bound(At(cards, i))
  /\ \A i \in Indices : Bound(At(cards, i)) => At(cards, i).matched

\* C20: once every bound slot of a deal is matched, the completion message
\* (with Play Again) is shown, also when the deal bound fewer than
\* CARD_COUNT slots.
C20_EveryDealCompletes ==
  AllBoundMatched ~> (completionMessages > 0)

====
